---- MODULE Spec2Model ----
(***************************************************************************)
(* Model of the job-posting analyzer: job_analyzer_cli.py and              *)
(* job_analyzer_interactive.py.                                            *)
(*                                                                         *)
(* A Python string is modelled as a sequence of tokens.  A token is a word,*)
(* a punctuation mark, a whitespace mark (" " or "\n") or one fixed piece  *)
(* of a template (the code fence of a prompt is the token "<fence>").      *)
(* Concatenation is \o, "x in s" is the contiguous sub-sequence test       *)
(* Contains(x, s).                                                         *)
(***************************************************************************)
EXTENDS Integers, Sequences, FiniteSets, TLC

VARIABLES
    variant,                 \* which script runs: "cli" or "interactive"
    pc,                      \* position of the process
    api_key,                 \* os.getenv("OPENROUTER_API_KEY"), <<>> when unset
    profile_file,            \* candidate_profile.json on disk
    candidate_data,          \* value returned by load_candidate_data
    job_url,                 \* target_job_url
    response,                \* outcome of requests.get inside the scraper
    fetch_count,             \* number of requests.get calls made
    text_content,            \* the text scrape_job_posting_text is working on
    scraped_text,            \* return value of scrape_job_posting_text
    job_context,
    candidate_data_string,
    prompts_core,
    step_results_text,
    full_report,
    calls,                   \* prompts submitted to client.chat.completions.create
    replies,                 \* what the remote service answered, in order
    fit_keywords,            \* the list positive_fit_keywords of the run
    proceed_with_generation,
    deep_dive_research_text,
    report_file,             \* content of the report file, NoFile before the write
    write_count              \* number of times the report file was opened for writing

vars == <<variant, pc, api_key, profile_file, candidate_data, job_url, response,
          fetch_count, text_content, scraped_text, job_context,
          candidate_data_string, prompts_core, step_results_text, full_report,
          calls, replies, fit_keywords, proceed_with_generation,
          deep_dive_research_text, report_file, write_count>>

(***************************************************************************)
(* Bounds of the model.                                                    *)
(***************************************************************************)
MaxParts == 2        \* a Step 5 reply is made of at most this many phrases
MaxElems == 2        \* a fetched page holds at most this many elements
MaxLen == 5          \* a text to clean up has at most this many characters
MaxOver == 2         \* a long text is at most this much longer than max_length

(***************************************************************************)
(* Strings.                                                                *)
(***************************************************************************)
IsSpace(t) == t \in {" ", "\n", "\t"}

\* str.lower(), token by token
LowerTok(t) ==
    CASE t = "Overall" -> "overall"
      [] t = "Fit" -> "fit"
      [] t = "Assessment" -> "assessment"
      [] t = "Strong" -> "strong"
      [] t = "Weak" -> "weak"
      [] t = "Not" -> "not"
      [] OTHER -> t

Lower(s) == [i \in 1..Len(s) |-> LowerTok(s[i])]

\* the positions at which x occurs in s
Occurrences(x, s) ==
    {i \in 1..(Len(s) - Len(x) + 1) : SubSeq(s, i, i + Len(x) - 1) = x}

\* x in s, for strings
Contains(x, s) == Occurrences(x, s) # {}

\* str.strip()
Strip(s) ==
    LET keep == {i \in 1..Len(s) : ~IsSpace(s[i])}
    IN  IF keep = {} THEN <<>>
        ELSE LET lo == CHOOSE i \in keep : \A j \in keep : i <= j
                 hi == CHOOSE i \in keep : \A j \in keep : j <= i
             IN  SubSeq(s, lo, hi)

RECURSIVE Concat(_)
Concat(ss) == IF ss = <<>> THEN <<>> ELSE Head(ss) \o Concat(Tail(ss))

\* sep.join(ss)
RECURSIVE Join(_, _)
Join(sep, ss) ==
    IF ss = <<>> THEN <<>>
    ELSE IF Len(ss) = 1 THEN ss[1]
    ELSE ss[1] \o sep \o Join(sep, Tail(ss))

\* s.split(x)[1]: the text between the first occurrence of x and the next
\* non-overlapping one (or the end); only taken when x occurs in s
SplitSecond(s, x) ==
    LET first == CHOOSE i \in Occurrences(x, s) : \A j \in Occurrences(x, s) : i <= j
        rest  == SubSeq(s, first + Len(x), Len(s))
        occ   == Occurrences(x, rest)
    IN  IF occ = {} THEN rest
        ELSE SubSeq(rest, 1, (CHOOSE i \in occ : \A j \in occ : i <= j) - 1)

\* dict.get(key, default); a dict is a function on the set of its keys
DictGet(d, key, default) == IF key \in DOMAIN d THEN d[key] ELSE default

\* d[key] = value
DictSet(d, key, value) ==
    [k \in (DOMAIN d) \cup {key} |-> IF k = key THEN value ELSE d[k]]

\* an optional string: None, or a str
None == [some |-> FALSE, text |-> <<>>]
Some(s) == [some |-> TRUE, text |-> s]
\* truth value of an optional string (if x:)
Truthy(o) == o.some /\ o.text # <<>>
(***************************************************************************)
(* The fetched page.  A parsed page is a sequence of elements in document  *)
(* order, inside a <body> or not (html.parser adds none).  An element has  *)
(* a tag, a class, an id and its text nodes.                               *)
(***************************************************************************)
selectors ==
    << "article.job-description", "div.job-description", "section.job-description",
       "div[class*=\"jobDescription\"]", "div[id*=\"jobDescription\"]",
       "div.job-details-content", "div.job-details", "div.description",
       "article", "main" >>

\* does the element match the CSS selector
SelectorMatches(selector, el) ==
    CASE selector = "article.job-description" ->
            el.tag = "article" /\ el.class = "job-description"
      [] selector = "div.job-description" ->
            el.tag = "div" /\ el.class = "job-description"
      [] selector = "section.job-description" ->
            el.tag = "section" /\ el.class = "job-description"
      [] selector = "div[class*=\"jobDescription\"]" ->
            el.tag = "div" /\ el.class = "main-jobDescription-box"
      [] selector = "div[id*=\"jobDescription\"]" ->
            el.tag = "div" /\ el.id = "jobDescriptionText"
      [] selector = "div.job-details-content" ->
            el.tag = "div" /\ el.class = "job-details-content"
      [] selector = "div.job-details" ->
            el.tag = "div" /\ el.class = "job-details"
      [] selector = "div.description" ->
            el.tag = "div" /\ el.class = "description"
      [] selector = "article" -> el.tag = "article"
      [] selector = "main" -> el.tag = "main"
      [] OTHER -> FALSE

\* soup.select_one(selector): the position of the first matching element in
\* document order, 0 for None
select_one(page, selector) ==
    LET hits == {i \in 1..Len(page.elems) : SelectorMatches(selector, page.elems[i])}
    IN  IF hits = {} THEN 0 ELSE CHOOSE i \in hits : \A j \in hits : i <= j

\* the stripped, non-empty strings of a sequence of text nodes
RECURSIVE StrippedStrings(_)
StrippedStrings(nodes) ==
    IF nodes = <<>> THEN <<>>
    ELSE (IF Strip(Head(nodes)) = <<>> THEN <<>> ELSE <<Strip(Head(nodes))>>)
         \o StrippedStrings(Tail(nodes))

\* mutant: the strings are joined as they are (strip=False)
get_text_unstripped(nodes) == Join(<<"\n">>, nodes)

\* tag.get_text(separator='\n', strip=True)
get_text(nodes) == Join(<<"\n">>, StrippedStrings(nodes))

\* the text nodes below <body>
RECURSIVE BodyNodes(_)
BodyNodes(elems) ==
    IF elems = <<>> THEN <<>> ELSE Head(elems).strings \o BodyNodes(Tail(elems))

\* mutant: the loop has no break, the last matching selector wins
RECURSIVE SelectorLoopNoBreak(_, _)
SelectorLoopNoBreak(page, i) ==
    LET hits == {n \in i..Len(selectors) : select_one(page, selectors[n]) # 0}
    IN  IF hits = {}
        THEN IF page.hasBody THEN get_text(BodyNodes(page.elems)) ELSE <<>>
        ELSE LET last == CHOOSE n \in hits : \A m \in hits : m <= n
             IN  get_text(page.elems[select_one(page, selectors[last])].strings)

\* mutant: a matched element without text does not end the loop
RECURSIVE SelectorLoopSkipsEmpty(_, _)
SelectorLoopSkipsEmpty(page, i) ==
    IF i > Len(selectors)
    THEN IF page.hasBody THEN get_text(BodyNodes(page.elems)) ELSE <<>>
    ELSE IF select_one(page, selectors[i]) # 0
            /\ get_text(page.elems[select_one(page, selectors[i])].strings) # <<>>
         THEN get_text(page.elems[select_one(page, selectors[i])].strings)
         ELSE SelectorLoopSkipsEmpty(page, i + 1)

\* the for ... else loop over the selectors, from selector number i on
RECURSIVE SelectorLoop(_, _)
SelectorLoop(page, i) ==
    IF i > Len(selectors)
    THEN \* no break: fall back to the body
         IF page.hasBody THEN get_text(BodyNodes(page.elems)) ELSE <<>>
    ELSE IF select_one(page, selectors[i]) # 0
         THEN get_text(page.elems[select_one(page, selectors[i])].strings)
         ELSE SelectorLoop(page, i + 1)

\* re.sub(r'\n\s*\n', '\n\n', s): leftmost matches, \s* greedy
RECURSIVE CollapseBlankLines(_)
CollapseBlankLines(s) ==
    IF s = <<>> THEN <<>>
    ELSE IF Head(s) # "\n" THEN <<Head(s)>> \o CollapseBlankLines(Tail(s))
    ELSE LET run  == {j \in 2..Len(s) : \A k \in 2..j : IsSpace(s[k])}
             ends == {j \in run : s[j] = "\n"}
         IN  IF ends = {} THEN <<"\n">> \o CollapseBlankLines(Tail(s))
             ELSE LET last == CHOOSE j \in ends : \A k \in ends : k <= j
                  IN  <<"\n", "\n">> \o CollapseBlankLines(SubSeq(s, last + 1, Len(s)))

\* mutant: the clean-up only trims the ends
NormalizeTrimOnly(s) == Strip(s)

\* the whitespace clean-up of the scraped text
Normalize(s) == Strip(CollapseBlankLines(s))

max_length == 15000

\* mutant: the cut keeps one character too many
TruncateOneMore(s) == IF Len(s) > max_length THEN SubSeq(s, 1, max_length + 1) ELSE s

\* text_content[:max_length] if len(text_content) > max_length else text_content
Truncate(s) == IF Len(s) > max_length THEN SubSeq(s, 1, max_length) ELSE s

\* mutant: the status of the response is not checked
ScrapeWithoutStatusCheck(resp) ==
    IF resp.kind \in {"ok", "http_error"}
    THEN LET extracted == SelectorLoop(resp.page, 1)
         IN  IF extracted # <<>> THEN Some(Truncate(Normalize(extracted)))
             ELSE None
    ELSE None

\* text_content when scrape_job_posting_text returns: the extracted text,
\* cleaned up when there is any; empty when the fetch or the parse failed
extracted_text(resp) ==
    IF resp.kind = "ok"
    THEN LET extracted == SelectorLoop(resp.page, 1)
         IN  IF extracted # <<>> THEN Normalize(extracted) ELSE <<>>
    ELSE <<>>

\* what scrape_job_posting_text returns for one outcome of requests.get
scrape_job_posting_text(resp) ==
    IF resp.kind = "ok"
    THEN LET extracted == SelectorLoop(resp.page, 1)
         IN  IF extracted # <<>> THEN Some(Truncate(Normalize(extracted)))
             ELSE None
    ELSE None

(***************************************************************************)
(* The remote generation call.  A reply of the service is a raised client  *)
(* error, a completion without choices, a completion whose first choice    *)
(* has no content (None), or a completion whose first choice has content.  *)
(***************************************************************************)
RaisedError(e)  == [kind |-> "raise", content |-> <<>>, error |-> e]
NoChoices       == [kind |-> "no_choices", content |-> <<>>, error |-> <<>>]
NullContent     == [kind |-> "null_content", content |-> <<>>, error |-> <<>>]
Choice(content) == [kind |-> "choice", content |-> content, error |-> <<>>]

\* call_llm(step_name, prompt_text) for one reply of the service:
\* the pair (report_section, text)
call_llm(step_name, reply) ==
    CASE reply.kind = "choice" ->
            LET message_content == Strip(reply.content)
            IN  [report_section |-> <<"**", step_name, "**", "\n", "\n">>
                                    \o message_content \o <<"\n", "\n">>,
                 text |-> message_content]
      [] reply.kind = "no_choices" ->
            [report_section |-> <<"**", step_name, "**", "\n",
                                  "*No valid response choice received from the model.*",
                                  "\n", "\n">>,
             text |-> <<>>]
      [] reply.kind = "null_content" ->
            \* None.strip() raises AttributeError inside the try
            [report_section |-> <<"**", step_name, "**", "\n",
                                  "*An error occurred during generation: ",
                                  "'NoneType' object has no attribute 'strip'",
                                  "*", "\n", "\n">>,
             text |-> <<>>]
      [] OTHER ->
            [report_section |-> <<"**", step_name, "**", "\n",
                                  "*An error occurred during generation: ">>
                                \o reply.error \o <<"*", "\n", "\n">>,
             text |-> <<>>]

(***************************************************************************)
(* The candidate profile: the value json.load returned.                    *)
(***************************************************************************)
\* candidate_profile.get('personalInfo', {}).get('name', 'N/A'):
\* raises AttributeError when the profile, or its personalInfo, is no dict
CandidateNameRaises(profile) ==
    \/ profile.json # "object"
    \/ profile.personalInfo \notin {"absent", "object"}

CandidateName(profile) ==
    IF profile.personalInfo = "object" /\ profile.name # <<>>
    THEN profile.name ELSE <<"N/A">>

\* json.dumps(candidate_profile, indent=2)
JsonDumps(profile) ==
    CASE profile.json = "array" -> <<"[]">>
      [] profile.personalInfo = "absent" -> <<"{", "\"skills\": [\"python\"]", "}">>
      [] profile.personalInfo = "string" ->
            <<"{", "\"personalInfo\": ", "\"">> \o profile.name \o <<"\"", "}">>
      [] OTHER ->
            <<"{", "\"personalInfo\": ", "{", "\"name\": ", "\"">>
            \o profile.name \o <<"\"", "}", "}">>

model_name(v) ==
    IF v = "cli" THEN "google/gemini-pro" ELSE "google/gemini-2.5-pro-exp-03-25:free"

(***************************************************************************)
(* The step names and prompts of analyze_job_application.                  *)
(***************************************************************************)
Step1 == "Step 1: Analyze Job Posting"
Step2 == "Step 2: Candidate Data Mapping"
Step3 == "Step 3: Ideal Profile & Personalized Positioning"
Step4 == "Step 4: Initial Company Vetting"
Step5 == "Step 5: Synthesize Findings (Personalized)"
Step5_5 == "Step 5.5: Deep Dive Company Research"
Step6 == "Step 6: Resume Tailoring Suggestions"
Step7 == "Step 7: Cover Letter Draft Generation"

\* job_context, from the URL and the scraper's result
JobContext(url, scraped) ==
    <<"Job Posting URL: ">> \o url \o
    (IF Truthy(scraped)
     THEN <<"\n", "\n", "Relevant Scraped Text:", "\n", "<fence>", "\n">>
          \o scraped.text \o <<"\n", "<fence>">>
     ELSE <<"\n", "\n", "(Could not scrape text. Rely on URL access.)">>)

\* the header full_report starts with
ReportHeader(v, url, profile) ==
    <<"--- Analysis Report for Job Posting: ">> \o url \o <<" ---", "\n", "\n">>
    \o <<"--- Model Used: ", model_name(v)>>
    \o (IF v = "cli" THEN <<" (May vary for research)">> ELSE <<>>)
    \o <<" via OpenRouter ---", "\n">>
    \o <<"--- Analyzing Against Candidate: ">> \o CandidateName(profile)
    \o <<" ---", "\n", "\n">>

\* prompts_core: the (step_name, prompt_text) pairs of steps 1 to 5
PromptsCore(v, url, context, data_string) ==
    IF v = "cli"
    THEN << <<Step1, <<"**Task 1: Analyze Job Posting**", "**Context:**", "\n">>
                     \o context>>,
            <<Step2, <<"**Task 2: Candidate Data Mapping (Against Job Requirements)**",
                       "**Candidate Data:**", "\n", "<fence>json", "\n">>
                     \o data_string \o <<"\n", "<fence>">> >>,
            <<Step3, <<"**Task 3: Ideal Profile Definition & Personalized Positioning**">> >>,
            <<Step4, <<"**Task 4: Initial Company Vetting**",
                       "research on the company from URL (">> \o url \o <<")">> >>,
            <<Step5, <<"**Task 5: Synthesize Findings (Personalized)**">> >> >>
    ELSE << <<Step1, <<"**Task 1: Analyze Job Posting**",
                       "Access the live Job Posting URL (">> \o url \o <<")",
                       "**Context:**", "\n">> \o context>>,
            <<Step2, <<"**Task 2: Candidate Data Mapping (Against Job Requirements)**",
                       "**Candidate Data:**", "\n", "<fence>json", "\n">>
                     \o data_string \o <<"\n", "<fence>">> >>,
            <<Step3, <<"**Task 3: Ideal Profile Definition & Personalized Positioning**",
                       "Based on the analysis of the job description (from Task 1, assuming success) and the candidate mapping (Task 2)">> >>,
            <<Step4, <<"**Task 4: Initial Company Vetting**",
                       "research on the company associated with the job posting URL (">>
                     \o url \o <<")">> >>,
            <<Step5, <<"**Task 5: Synthesize Findings (Personalized)**",
                       "Provide a final **Overall Fit Assessment**">> >> >>

PromptStep5_5(url) ==
    <<"**Task 5.5: Deep Dive Company Research**",
      "company associated with the job posting URL (">> \o url \o <<")">>

\* the default the prompts of steps 6 and 7 pass to step_results_text.get
JobAnalysisDefault(v) ==
    IF v = "cli" THEN <<"Job analysis unavailable.">>
    ELSE <<"Job analysis data unavailable.">>

PositioningDefault == <<"Positioning statement unavailable.">>

PromptStep6(v, results, deep_dive, data_string) ==
    <<"**Task 6: Resume Tailoring Suggestions**",
      "**Job Posting Analysis (from Step 1):**", "\n", "<fence>", "\n">>
    \o DictGet(results, Step1, JobAnalysisDefault(v))
    \o <<"\n", "<fence>", "**Deep Dive Company Research (from Step 5.5):**", "\n", "<fence>", "\n">>
    \o deep_dive
    \o <<"\n", "<fence>", "**Candidate Data:**", "\n", "<fence>json", "\n">>
    \o data_string \o <<"\n", "<fence>">>

PromptStep7(v, results, deep_dive, data_string) ==
    <<"**Task 7: Cover Letter Draft Generation**",
      "**Job Posting Analysis (from Step 1):**", "\n", "<fence>", "\n">>
    \o DictGet(results, Step1, JobAnalysisDefault(v))
    \o <<"\n", "<fence>", "**Deep Dive Company Research (from Step 5.5):**", "\n", "<fence>", "\n">>
    \o deep_dive
    \o <<"\n", "<fence>", "**Candidate Data:**", "\n", "<fence>json", "\n">>
    \o data_string
    \o <<"\n", "<fence>", "**Personalized Positioning Statement (from Step 3):**",
         "\n", "<fence>", "\n">>
    \o DictGet(results, Step3, PositioningDefault)
    \o <<"\n", "<fence>">>

SkipNotice ==
    <<"**Steps 5.5, 6, & 7 (Deep Dive Research, Resume Suggestions & Cover Letter Draft):**",
      "\n", "\n", "Skipped as initial analysis did not indicate a promising fit.",
      "\n", "\n">>

(***************************************************************************)
(* The fit predicate.                                                      *)
(***************************************************************************)
Marker == <<"overall", "fit", "assessment">>

positive_fit_keywords(v) ==
    { <<"strong", "fit">>, <<"good", "fit">>, <<"excellent", "fit">>,
      <<"very", "good", "fit">>, <<"high", "potential">>, <<"well-suited">>,
      <<"strong", "match">>, <<"good", "match">>, <<"moderate", "fit">> }
    \cup (IF v = "interactive" THEN { <<"promising", "fit">> } ELSE {})

\* any(keyword in text for keyword in keywords)
AnyKeyword(keywords, text) == \E keyword \in keywords : Contains(keyword, text)

\* mutant: the cli script falls back to the whole text, like the interactive one
FitCliWithFallback(keywords, step5_output) == AnyKeyword(keywords, step5_output)

\* mutant: every phrase of the list has to occur, not any
FitCliAllKeywords(keywords, step5_output) ==
    (\A keyword \in keywords : Contains(keyword, step5_output))
    /\ Contains(Marker, step5_output)

\* proceed_with_generation as the cli script computes it
FitCli(keywords, step5_output) ==
    AnyKeyword(keywords, step5_output) /\ Contains(Marker, step5_output)

\* mutant: the interactive script searches the whole text, not the section
FitInteractiveWholeText(keywords, step5_output) == AnyKeyword(keywords, step5_output)

\* mutant: the interactive script searches all the text after the first
\* marker (split with maxsplit=1)
FitInteractiveRestOfText(keywords, step5_output) ==
    IF Contains(Marker, step5_output)
    THEN LET first == CHOOSE i \in Occurrences(Marker, step5_output) :
                         \A j \in Occurrences(Marker, step5_output) : i <= j
         IN  AnyKeyword(keywords, SubSeq(step5_output, first + Len(Marker),
                                         Len(step5_output)))
    ELSE AnyKeyword(keywords, step5_output)

\* proceed_with_generation as the interactive script computes it
FitInteractive(keywords, step5_output) ==
    IF Contains(Marker, step5_output)
    THEN AnyKeyword(keywords, SplitSecond(step5_output, Marker))
    ELSE AnyKeyword(keywords, step5_output)

\* mutant: with no Step 5 text to judge, the script goes on
FitPredicateDefaultsToProceed(v, results) ==
    LET step5_output == Lower(DictGet(results, Step5, <<>>))
    IN  IF step5_output = <<>> THEN TRUE
        ELSE IF v = "cli" THEN FitCli(positive_fit_keywords(v), step5_output)
        ELSE FitInteractive(positive_fit_keywords(v), step5_output)

\* proceed_with_generation, from the Step 5 result and a list of phrases
FitWith(v, keywords, results) ==
    LET step5_output == Lower(DictGet(results, Step5, <<>>))
    IN  IF v = "cli" THEN FitCli(keywords, step5_output)
        ELSE FitInteractive(keywords, step5_output)

\* mutant: the script also wants a Step 1 result before it goes on
FitPredicateNeedsStep1(v, results) ==
    /\ DictGet(results, Step1, <<>>) # <<>>
    /\ FitWith(v, positive_fit_keywords(v), results)

\* proceed_with_generation, from the Step 5 result
FitPredicate(v, results) == FitWith(v, positive_fit_keywords(v), results)
(***************************************************************************)
(* The inputs of a run.                                                    *)
(***************************************************************************)
JobUrl == <<"https://jobs.example/posting/1">>

NoData == [json |-> "none", personalInfo |-> "absent", name |-> <<>>]

Profiles ==
    { [json |-> "object", personalInfo |-> "object", name |-> <<"Ada">>],
      [json |-> "object", personalInfo |-> "absent", name |-> <<>>],
      [json |-> "object", personalInfo |-> "string", name |-> <<"Ada">>],
      [json |-> "array",  personalInfo |-> "absent", name |-> <<>>] }

ProfileFiles ==
    { [status |-> "missing", data |-> NoData], [status |-> "malformed", data |-> NoData] }
    \cup { [status |-> "ok", data |-> p] : p \in Profiles }

NoPage == [hasBody |-> FALSE, elems |-> <<>>]
NoResponse == [kind |-> "none", page |-> NoPage]
Ok(page) == [kind |-> "ok", page |-> page]
\* the page a server sends along with an error status
ErrorPage ==
    [hasBody |-> TRUE,
     elems |-> << [tag |-> "main", class |-> "", id |-> "",
                   strings |-> << <<"404", "Not", "Found">> >>] >>]

\* requests.get times out or fails; raise_for_status() raises on an error
\* status; BeautifulSoup or the extraction raises
FetchFailures ==
    { [kind |-> k, page |-> NoPage] : k \in {"timeout", "connection_error", "parse_error"} }
    \cup { [kind |-> "http_error", page |-> ErrorPage] }

\* the tag, class and id an element of a page may have
ElementKinds ==
    { [tag |-> "article", class |-> "job-description", id |-> ""],
      [tag |-> "div",     class |-> "job-description", id |-> ""],
      [tag |-> "section", class |-> "job-description", id |-> ""],
      [tag |-> "div",     class |-> "main-jobDescription-box", id |-> ""],
      [tag |-> "div",     class |-> "", id |-> "jobDescriptionText"],
      [tag |-> "div",     class |-> "job-details-content", id |-> ""],
      [tag |-> "div",     class |-> "job-details", id |-> ""],
      [tag |-> "div",     class |-> "description", id |-> ""],
      [tag |-> "article", class |-> "", id |-> ""],
      [tag |-> "main",    class |-> "", id |-> ""],
      [tag |-> "p",       class |-> "", id |-> ""] }

\* the word of the element at position i of a page, when it has one
Words == <<"Engineer", "Remote", "Benefits", "Apply", "Salary">>

\* what an element holds: no text node, a text node of whitespace only, or
\* a text node with a word in it
TextKinds == {"none", "blank", "words"}

Element(kind, i, text) ==
    [tag |-> kind.tag, class |-> kind.class, id |-> kind.id,
     strings |-> CASE text = "words" -> << <<" ", Words[i], "\n">> >>
                   [] text = "blank" -> << <<"\n", " ", "\n">> >>
                   [] OTHER -> <<>>]

\* the page of the elements f describes: f[i] is the kind of element i and
\* whether it has text
PageOf(hasBody, f) ==
    [hasBody |-> hasBody,
     elems |-> [i \in DOMAIN f |-> Element(f[i][1], i, f[i][2])]]

\* what requests.get may answer in a run of the whole script
Fetches ==
    FetchFailures
    \cup { Ok(NoPage),
           Ok([hasBody |-> TRUE,
               elems |-> << Element([tag |-> "div", class |-> "job-description",
                                     id |-> ""], 1, "words") >>]) }

\* the phrases a Step 5 reply is made of
Parts ==
    { <<"Overall", "Fit", "Assessment", ":">>,
      <<"Strong", "Fit", ".">>,
      <<"Not", "a", "strong", "fit", ".">>,
      <<"Weak", "fit", ",", "many", "gaps", ".">> }

RECURSIVE TextsOf(_)
TextsOf(n) ==
    IF n = 0 THEN { <<>> }
    ELSE TextsOf(n - 1) \cup { t \o p : t \in TextsOf(n - 1), p \in Parts }

\* Step 5 replies that name the assessment twice, with the verdict after
\* the first heading or after the second
TwoMarkerTexts ==
    LET heading == <<"Overall", "Fit", "Assessment", ":">>
        strong  == <<"Strong", "Fit", ".">>
        weak    == <<"Weak", "fit", ",", "many", "gaps", ".">>
    IN  { heading \o weak \o heading \o strong,
          heading \o strong \o heading \o weak }

Step5Texts == (TextsOf(MaxParts) \ { <<>> }) \cup TwoMarkerTexts

\* the text the service answers to the prompt of a step other than Step 5
SampleOutput(step_name) ==
    CASE step_name = Step1 -> "Responsibilities: build services."
      [] step_name = Step2 -> "Qualification/Skill Analysis: matches."
      [] step_name = Step3 -> "Personalized Candidate Positioning: a builder."
      [] step_name = Step4 -> "Company Overview: a software company."
      [] step_name = Step5_5 -> "1. Company Overview: founded 2010."
      [] step_name = Step6 -> "Summary Enhancement: mention services."
      [] step_name = Step7 -> "Dear [Recipient Name],"
      [] OTHER -> "Output."

\* what the remote service may answer to the prompt of a step: every kind of
\* reply for Step 5, whose text decides the branch; an error, a completion
\* without choices or a text for the steps whose text a later prompt reads;
\* an error or a text for the others
Replies(step_name) ==
    { RaisedError(<<"Connection error.">>) }
    \cup (IF step_name = Step5
          THEN { NoChoices, NullContent, Choice(<<>>) }
               \cup { Choice(<<"\n">> \o t \o <<" ">>) : t \in Step5Texts }
          ELSE { Choice(<<" ", SampleOutput(step_name), "\n">>) }
               \cup (IF step_name \in {Step1, Step3, Step5_5} THEN { NoChoices } ELSE {}))
(***************************************************************************)
(* The script: start-up, analyze_job_application, saving the report.       *)
(***************************************************************************)
Init ==
    /\ variant \in {"cli", "interactive"}
    /\ pc = "start"
    /\ api_key \in { <<>>, <<"sk-or-v1-key">> }
    /\ profile_file \in ProfileFiles
    /\ candidate_data = NoData
    /\ job_url = <<>>
    /\ response = NoResponse
    /\ fetch_count = 0
    /\ text_content = <<>>
    /\ scraped_text = None
    /\ job_context = <<>>
    /\ candidate_data_string = <<>>
    /\ prompts_core = <<>>
    /\ step_results_text = <<>>
    /\ full_report = <<>>
    /\ calls = <<>>
    /\ replies = <<>>
    /\ fit_keywords = {}
    /\ proceed_with_generation = FALSE
    /\ deep_dive_research_text = <<>>
    /\ report_file = None
    /\ write_count = 0

\* the module-level check of OPENROUTER_API_KEY
CheckCredential ==
    /\ pc = "start"
    /\ pc' = IF api_key = <<>> THEN "aborted" ELSE "load"
    /\ UNCHANGED <<fit_keywords, text_content, variant, api_key, profile_file, candidate_data, job_url, response,
                   fetch_count, scraped_text, job_context,
                   candidate_data_string, prompts_core, step_results_text,
                   full_report, calls, replies, proceed_with_generation,
                   deep_dive_research_text, report_file, write_count>>

\* mutant: a file that cannot be loaded does not end the process
LoadWithoutExit ==
    /\ pc = "load"
    /\ candidate_data' = IF profile_file.status = "ok" THEN profile_file.data
                         ELSE candidate_data
    /\ pc' = "url"
    /\ UNCHANGED <<fit_keywords, text_content, variant, api_key, profile_file, job_url, response,
                   fetch_count, scraped_text, job_context,
                   candidate_data_string, prompts_core, step_results_text,
                   full_report, calls, replies, proceed_with_generation,
                   deep_dive_research_text, report_file, write_count>>

\* load_candidate_data(): json.load of the profile file; exit(1) on any failure
load_candidate_data ==
    /\ pc = "load"
    /\ IF profile_file.status = "ok"
       THEN candidate_data' = profile_file.data /\ pc' = "url"
       ELSE candidate_data' = candidate_data /\ pc' = "aborted"
    /\ UNCHANGED <<fit_keywords, text_content, variant, api_key, profile_file, job_url, response,
                   fetch_count, scraped_text, job_context,
                   candidate_data_string, prompts_core, step_results_text,
                   full_report, calls, replies, proceed_with_generation,
                   deep_dive_research_text, report_file, write_count>>

\* the URL from the command line, or from the prompt
ReadJobUrl ==
    /\ pc = "url"
    /\ job_url' = JobUrl
    /\ pc' = "analyze"
    /\ UNCHANGED <<fit_keywords, text_content, variant, api_key, profile_file, candidate_data, response,
                   fetch_count, scraped_text, job_context,
                   candidate_data_string, prompts_core, step_results_text,
                   full_report, calls, replies, proceed_with_generation,
                   deep_dive_research_text, report_file, write_count>>

\* the first lines of analyze_job_application, which print the candidate's name
StartAnalysis ==
    /\ pc = "analyze"
    /\ pc' = IF CandidateNameRaises(candidate_data) THEN "crashed" ELSE "scrape"
    /\ UNCHANGED <<fit_keywords, text_content, variant, api_key, profile_file, candidate_data, job_url, response,
                   fetch_count, scraped_text, job_context,
                   candidate_data_string, prompts_core, step_results_text,
                   full_report, calls, replies, proceed_with_generation,
                   deep_dive_research_text, report_file, write_count>>

\* scraped_text = scrape_job_posting_text(job_url), requests.get answering r
Scrape(r) ==
    /\ pc = "scrape"
    /\ response' = r
    /\ fetch_count' = fetch_count + 1
    /\ text_content' = extracted_text(r)
    /\ scraped_text' = scrape_job_posting_text(r)
    /\ pc' = "context"
    /\ UNCHANGED <<fit_keywords, variant, api_key, profile_file, candidate_data, job_url,
                   job_context, candidate_data_string, prompts_core,
                   step_results_text, full_report, calls, replies,
                   proceed_with_generation, deep_dive_research_text, report_file,
                   write_count>>

ScrapePosting == pc = "scrape" /\ \E r \in Fetches : Scrape(r)

\* job_context, the report header, and the prompts of steps 1 to 5
BuildPrompts ==
    /\ pc = "context"
    /\ job_context' = JobContext(job_url, scraped_text)
    /\ step_results_text' = <<>>
    /\ full_report' = ReportHeader(variant, job_url, candidate_data)
    /\ candidate_data_string' = JsonDumps(candidate_data)
    /\ prompts_core' = PromptsCore(variant, job_url, job_context', candidate_data_string')
    /\ response' = NoResponse
    /\ text_content' = <<>>
    /\ pc' = "core"
    /\ UNCHANGED <<fit_keywords, variant, api_key, profile_file, candidate_data, job_url,
                   fetch_count, scraped_text, calls, replies,
                   proceed_with_generation, deep_dive_research_text, report_file,
                   write_count>>

\* mutant: a failed call leaves no section in the report
CallDropsFailedSection(step_name, prompt_text, reply) ==
    /\ calls' = Append(calls, [step |-> step_name, prompt |-> prompt_text])
    /\ replies' = Append(replies, reply)
    /\ full_report' = IF reply.kind = "choice"
                      THEN full_report \o call_llm(step_name, reply).report_section
                      ELSE full_report

\* mutant: the prompt sent carries the text the call itself is answered with
CallEmbedsOwnResult(step_name, prompt_text, reply) ==
    /\ calls' = Append(calls, [step |-> step_name,
                               prompt |-> prompt_text \o call_llm(step_name, reply).text])
    /\ replies' = Append(replies, reply)
    /\ full_report' = full_report \o call_llm(step_name, reply).report_section

\* one call_llm: the prompt goes out, the reply comes back, the section is appended
Call(step_name, prompt_text, reply) ==
    /\ calls' = Append(calls, [step |-> step_name, prompt |-> prompt_text])
    /\ replies' = Append(replies, reply)
    /\ full_report' = full_report \o call_llm(step_name, reply).report_section

\* mutant: the loop stops one pair early
LoopEndsEarly(k, prompts) == k >= Len(prompts) - 1

\* the loop over prompts_core ends after its last pair
LoopEnds(k, prompts) == k = Len(prompts)

\* one iteration of the loop over prompts_core
CoreStep ==
    /\ pc = "core"
    /\ LET k == Len(calls) + 1
           step_name == prompts_core[k][1]
       IN  /\ \E reply \in Replies(step_name) :
                /\ Call(step_name, prompts_core[k][2], reply)
                /\ step_results_text' =
                      DictSet(step_results_text, step_name, call_llm(step_name, reply).text)
           /\ pc' = IF LoopEnds(k, prompts_core) THEN "predicate" ELSE "core"
    /\ UNCHANGED <<fit_keywords, text_content, variant, api_key, profile_file, candidate_data, job_url, response,
                   fetch_count, scraped_text, job_context,
                   candidate_data_string, prompts_core, proceed_with_generation,
                   deep_dive_research_text, report_file, write_count>>

\* the conditional generation logic
EvaluateFit ==
    /\ pc = "predicate"
    /\ fit_keywords' = positive_fit_keywords(variant)
    /\ proceed_with_generation' = FitPredicate(variant, step_results_text)
    /\ pc' = "branch"
    /\ UNCHANGED <<text_content, variant, api_key, profile_file, candidate_data, job_url, response,
                   fetch_count, scraped_text, job_context,
                   candidate_data_string, prompts_core, step_results_text,
                   full_report, calls, replies, deep_dive_research_text,
                   report_file, write_count>>

\* step 5.5
DeepDive ==
    /\ pc = "branch"
    /\ proceed_with_generation
    /\ \E reply \in Replies(Step5_5) :
          /\ Call(Step5_5, PromptStep5_5(job_url), reply)
          /\ deep_dive_research_text' = call_llm(Step5_5, reply).text
          /\ step_results_text' =
                DictSet(step_results_text, Step5_5, call_llm(Step5_5, reply).text)
    /\ pc' = "step6"
    /\ UNCHANGED <<fit_keywords, text_content, variant, api_key, profile_file, candidate_data, job_url, response,
                   fetch_count, scraped_text, job_context,
                   candidate_data_string, prompts_core, proceed_with_generation,
                   report_file, write_count>>

\* step 6
ResumeSuggestions ==
    /\ pc = "step6"
    /\ \E reply \in Replies(Step6) :
          Call(Step6, PromptStep6(variant, step_results_text, deep_dive_research_text,
                                  candidate_data_string), reply)
    /\ pc' = "step7"
    /\ UNCHANGED <<fit_keywords, text_content, variant, api_key, profile_file, candidate_data, job_url, response,
                   fetch_count, scraped_text, job_context,
                   candidate_data_string, prompts_core, step_results_text,
                   proceed_with_generation, deep_dive_research_text, report_file,
                   write_count>>

\* step 7
CoverLetter ==
    /\ pc = "step7"
    /\ \E reply \in Replies(Step7) :
          Call(Step7, PromptStep7(variant, step_results_text, deep_dive_research_text,
                                  candidate_data_string), reply)
    /\ pc' = "return"
    /\ UNCHANGED <<fit_keywords, text_content, variant, api_key, profile_file, candidate_data, job_url, response,
                   fetch_count, scraped_text, job_context,
                   candidate_data_string, prompts_core, step_results_text,
                   proceed_with_generation, deep_dive_research_text, report_file,
                   write_count>>

\* mutant: the else branch appends nothing
SkipGenerationNoNotice ==
    /\ pc = "branch"
    /\ ~proceed_with_generation
    /\ pc' = "return"
    /\ UNCHANGED <<fit_keywords, text_content, variant, api_key, profile_file, candidate_data, job_url, response,
                   fetch_count, scraped_text, job_context,
                   candidate_data_string, prompts_core, step_results_text, calls,
                   replies, proceed_with_generation, deep_dive_research_text,
                   report_file, write_count, full_report>>

\* mutant: the skip notice is assigned to the report, not appended to it
SkipGenerationReplacesReport ==
    /\ pc = "branch"
    /\ ~proceed_with_generation
    /\ full_report' = SkipNotice
    /\ pc' = "return"
    /\ UNCHANGED <<fit_keywords, text_content, variant, api_key, profile_file, candidate_data, job_url,
                   response, fetch_count, scraped_text, job_context,
                   candidate_data_string, prompts_core, step_results_text, calls,
                   replies, proceed_with_generation, deep_dive_research_text,
                   report_file, write_count>>

\* the else branch: the skip notice
SkipGeneration ==
    /\ pc = "branch"
    /\ ~proceed_with_generation
    /\ full_report' = full_report \o SkipNotice
    /\ pc' = "return"
    /\ UNCHANGED <<fit_keywords, text_content, variant, api_key, profile_file, candidate_data, job_url, response,
                   fetch_count, scraped_text, job_context,
                   candidate_data_string, prompts_core, step_results_text, calls,
                   replies, proceed_with_generation, deep_dive_research_text,
                   report_file, write_count>>

\* the report comes back to __main__ and is written to the report file;
\* a failure of the write is caught and printed
SaveReport ==
    /\ pc = "return"
    /\ write_count' = write_count + 1
    /\ \E written \in BOOLEAN :
          report_file' = IF written THEN Some(full_report) ELSE None
    /\ pc' = "done"
    /\ UNCHANGED <<fit_keywords, text_content, variant, api_key, profile_file, candidate_data, job_url, response,
                   fetch_count, scraped_text, job_context,
                   candidate_data_string, prompts_core, step_results_text,
                   full_report, calls, replies, proceed_with_generation,
                   deep_dive_research_text>>

Next ==
    \/ CheckCredential
    \/ load_candidate_data
    \/ ReadJobUrl
    \/ StartAnalysis
    \/ ScrapePosting
    \/ BuildPrompts
    \/ CoreStep
    \/ EvaluateFit
    \/ DeepDive
    \/ ResumeSuggestions
    \/ CoverLetter
    \/ SkipGeneration
    \/ SaveReport

Spec == Init /\ [][Next]_vars

(***************************************************************************)
(* The scraper alone, on every page of at most MaxElems elements.          *)
(***************************************************************************)
InitScrape ==
    /\ variant \in {"cli", "interactive"}
    /\ pc = "scrape"
    /\ api_key = <<"sk-or-v1-key">>
    /\ profile_file \in { f \in ProfileFiles :
                            f.status = "ok" /\ ~CandidateNameRaises(f.data) }
    /\ candidate_data = profile_file.data
    /\ job_url = JobUrl
    /\ response = NoResponse
    /\ fetch_count = 0
    /\ text_content = <<>>
    /\ scraped_text = None
    /\ job_context = <<>>
    /\ candidate_data_string = <<>>
    /\ prompts_core = <<>>
    /\ step_results_text = <<>>
    /\ full_report = <<>>
    /\ calls = <<>>
    /\ replies = <<>>
    /\ fit_keywords = {}
    /\ proceed_with_generation = FALSE
    /\ deep_dive_research_text = <<>>
    /\ report_file = None
    /\ write_count = 0

\* requests.get fails, or answers any page of at most MaxElems elements
ScrapeAnyPage ==
    /\ pc = "scrape"
    /\ \/ \E r \in FetchFailures : Scrape(r)
       \/ \E k \in 0..MaxElems, hasBody \in BOOLEAN :
             \E f \in [1..k -> ElementKinds \X TextKinds] : Scrape(Ok(PageOf(hasBody, f)))

NextScrape == ScrapeAnyPage \/ BuildPrompts

SpecScrape == InitScrape /\ [][NextScrape]_vars
(***************************************************************************)
(* The end of the scraper alone (the clean-up and the cut of the extracted *)
(* text), on every text of at most MaxLen characters over a small alphabet *)
(* and on long texts around max_length.  Here a token is one character.    *)
(***************************************************************************)
Chars == {"a", " ", "\n"}

RECURSIVE TextsUpTo(_)
TextsUpTo(n) ==
    IF n = 0 THEN { <<>> }
    ELSE TextsUpTo(n - 1)
         \cup { Append(t, c) : t \in {u \in TextsUpTo(n - 1) : Len(u) = n - 1}, c \in Chars }

\* a cleaned-up text of n characters: lines of 80 characters
LongText(n) == [i \in 1..n |-> IF i % 80 = 0 /\ i < n THEN "\n" ELSE "a"]

LongTexts == { LongText(n) : n \in (max_length - MaxOver)..(max_length + MaxOver) }

InitText ==
    /\ variant \in {"cli", "interactive"}
    /\ \/ pc = "cleanup" /\ text_content \in TextsUpTo(MaxLen)
       \/ pc = "cut" /\ text_content \in LongTexts
    /\ api_key = <<"sk-or-v1-key">>
    /\ profile_file \in { f \in ProfileFiles :
                            f.status = "ok" /\ ~CandidateNameRaises(f.data) }
    /\ candidate_data = profile_file.data
    /\ job_url = JobUrl
    /\ response = Ok(NoPage)
    /\ fetch_count = 1
    /\ scraped_text = None
    /\ job_context = <<>>
    /\ candidate_data_string = <<>>
    /\ prompts_core = <<>>
    /\ step_results_text = <<>>
    /\ full_report = <<>>
    /\ calls = <<>>
    /\ replies = <<>>
    /\ fit_keywords = {}
    /\ proceed_with_generation = FALSE
    /\ deep_dive_research_text = <<>>
    /\ report_file = None
    /\ write_count = 0

\* if text_content: clean it up; else return None
CleanUpText ==
    /\ pc = "cleanup"
    /\ IF text_content # <<>>
       THEN /\ text_content' = Normalize(text_content)
            /\ pc' = "cut"
            /\ UNCHANGED scraped_text
       ELSE /\ scraped_text' = None
            /\ pc' = "context"
            /\ UNCHANGED text_content
    /\ UNCHANGED <<fit_keywords, variant, api_key, profile_file, candidate_data, job_url, response,
                   fetch_count, job_context, candidate_data_string, prompts_core,
                   step_results_text, full_report, calls, replies,
                   proceed_with_generation, deep_dive_research_text, report_file,
                   write_count>>

\* return the text, cut to max_length
CutText ==
    /\ pc = "cut"
    /\ scraped_text' = Some(Truncate(text_content))
    /\ pc' = "context"
    /\ UNCHANGED <<fit_keywords, text_content, variant, api_key, profile_file, candidate_data, job_url,
                   response, fetch_count, job_context, candidate_data_string,
                   prompts_core, step_results_text, full_report, calls, replies,
                   proceed_with_generation, deep_dive_research_text, report_file,
                   write_count>>

NextText == CleanUpText \/ CutText

SpecText == InitText /\ [][NextText]_vars
(***************************************************************************)
(* The fit predicate alone, on every Step 5 text of at most MaxParts       *)
(* phrases and every list of phrases taken from a small pool; a phrase     *)
(* added to the list makes the script judge the same text again.           *)
(***************************************************************************)
PhrasePool ==
    { <<"strong", "fit">>, <<"good", "fit">>, <<"weak", "fit">>, <<"many", "gaps">> }

InitFit ==
    /\ variant \in {"cli", "interactive"}
    /\ pc = "predicate"
    /\ fit_keywords \in (SUBSET PhrasePool) \ {PhrasePool}
    /\ step_results_text \in { DictSet(<<>>, Step5, t) : t \in TextsOf(MaxParts) }
    /\ api_key = <<"sk-or-v1-key">>
    /\ profile_file \in { f \in ProfileFiles : f.status = "ok" /\ f.data.name # <<>>
                                                 /\ ~CandidateNameRaises(f.data) }
    /\ candidate_data = profile_file.data
    /\ job_url = JobUrl
    /\ response = NoResponse
    /\ fetch_count = 1
    /\ text_content = <<>>
    /\ scraped_text = None
    /\ job_context = <<>>
    /\ candidate_data_string = <<>>
    /\ prompts_core = <<>>
    /\ full_report = <<>>
    /\ calls = <<>>
    /\ replies = <<>>
    /\ proceed_with_generation = FALSE
    /\ deep_dive_research_text = <<>>
    /\ report_file = None
    /\ write_count = 0

\* the conditional generation logic, with the list of phrases at hand
EvaluateFitWith ==
    /\ pc = "predicate"
    /\ proceed_with_generation' = FitWith(variant, fit_keywords, step_results_text)
    /\ pc' = "branch"
    /\ UNCHANGED <<fit_keywords, text_content, variant, api_key, profile_file,
                   candidate_data, job_url, response, fetch_count, scraped_text,
                   job_context, candidate_data_string, prompts_core,
                   step_results_text, full_report, calls, replies,
                   deep_dive_research_text, report_file, write_count>>

\* a phrase is added to the list and the same Step 5 text is judged again
AddPhrase ==
    /\ pc = "branch"
    /\ \E phrase \in PhrasePool \ fit_keywords :
          /\ fit_keywords' = fit_keywords \cup {phrase}
          /\ proceed_with_generation' = FitWith(variant, fit_keywords', step_results_text)
    /\ UNCHANGED <<pc, text_content, variant, api_key, profile_file,
                   candidate_data, job_url, response, fetch_count, scraped_text,
                   job_context, candidate_data_string, prompts_core,
                   step_results_text, full_report, calls, replies,
                   deep_dive_research_text, report_file, write_count>>

NextFit == EvaluateFitWith \/ AddPhrase

SpecFit == InitFit /\ [][NextFit]_vars
(***************************************************************************)
(* Properties.                                                             *)
(***************************************************************************)
CoreNames == <<Step1, Step2, Step3, Step4, Step5>>
ExtensionNames == <<Step5_5, Step6, Step7>>

\* the steps invoked so far, in order
CallSteps == [i \in 1..Len(calls) |-> calls[i].step]

\* the fit predicate has been, or is about to be, evaluated
CoreLoopOver == pc \in {"predicate", "branch", "step6", "step7", "return", "done"}

\* C1: whatever the scrape returned and whichever remote calls failed, the
\* five core steps are invoked exactly once each, in their order, before the
\* fit predicate is evaluated; while the loop runs, the steps invoked are the
\* first ones in order and the next one can always be invoked.
C1_CoreStepsAlwaysRun ==
    /\ pc = "core" =>
          /\ Len(calls) < Len(CoreNames)
          /\ CallSteps = SubSeq(CoreNames, 1, Len(calls))
          /\ ENABLED CoreStep
    /\ CoreLoopOver =>
          /\ Len(calls) >= Len(CoreNames)
          /\ SubSeq(CallSteps, 1, Len(CoreNames)) = CoreNames
          /\ \A i \in 1..Len(calls) :
                i > Len(CoreNames) => \A j \in 1..Len(CoreNames) : calls[i].step # CoreNames[j]
    /\ pc = "predicate" => CallSteps = CoreNames

\* C1 witness: no text was scraped, steps 1, 2 and 4 failed in the three
\* ways a call can fail, and the predicate is about to be evaluated
C1_Witness ==
    /\ pc = "predicate"
    /\ ~scraped_text.some
    /\ replies[1].kind = "no_choices"
    /\ replies[2].kind = "raise"
    /\ replies[4].kind = "raise"
    /\ replies[5].kind = "null_content"
    /\ CallSteps = CoreNames

\* C2: after a successful start-up analyze_job_application never raises,
\* whatever JSON value the profile file held.
C2_NeverRaisesAfterStartup == pc # "crashed"
\* the lower-cased Step 5 result the fit predicate reads
Step5Lower == Lower(DictGet(step_results_text, Step5, <<>>))

\* some positive-fit phrase of the running script lies within text[from..to]
KeywordWithin(text, from, to) ==
    \E keyword \in positive_fit_keywords(variant) :
       \E i \in Occurrences(keyword, text) : i >= from /\ i + Len(keyword) - 1 <= to

\* the place right after the first marker
AfterFirstMarker(text) ==
    (CHOOSE i \in Occurrences(Marker, text) :
        \A j \in Occurrences(Marker, text) : i <= j) + Len(Marker)

\* the place right before the second marker, the end of the text without one
BeforeSecondMarker(text) ==
    LET later == {i \in Occurrences(Marker, text) : i >= AfterFirstMarker(text)}
    IN  IF later = {} THEN Len(text)
        ELSE (CHOOSE i \in later : \A j \in later : i <= j) - 1

\* the branch has just been taken: step 5.5 has been invoked, or the skip
\* notice appended
TookExtension == pc = "step6" /\ calls[Len(calls)].step = Step5_5
EndsWith(text, suffix) ==
    /\ Len(text) >= Len(suffix)
    /\ SubSeq(text, Len(text) - Len(suffix) + 1, Len(text)) = suffix
TookSkipNote ==
    pc = "return" /\ Len(calls) = Len(CoreNames) /\ EndsWith(full_report, SkipNotice)
AtBranch == pc = "branch" \/ pc = "step6" \/ (pc = "return" /\ Len(calls) = Len(CoreNames))

\* C3 as claimed: with the marker in the lower-cased Step 5 output, both
\* scripts go to S6 exactly when a positive-fit phrase occurs in the rest of
\* the text after the marker.
C3_Original_MarkerPresent ==
    (AtBranch /\ Contains(Marker, Step5Lower)) =>
        LET expected == KeywordWithin(Step5Lower, AfterFirstMarker(Step5Lower),
                                      Len(Step5Lower))
        IN  /\ pc = "branch" => (proceed_with_generation <=> expected)
            /\ pc = "step6" => TookExtension /\ expected
            /\ pc = "return" => TookSkipNote /\ ~expected

\* C3 amended: with the marker in the lower-cased Step 5 output, the
\* interactive script goes to S6 exactly when a positive-fit phrase occurs
\* between the first marker and the next one (or the end of the text), and the
\* cli script exactly when a positive-fit phrase occurs anywhere in the output;
\* otherwise SkipNote.  A plain substring test: "not a strong fit" proceeds.
C3_MarkerPresent ==
    (AtBranch /\ Contains(Marker, Step5Lower)) =>
        LET expected == IF variant = "interactive"
                        THEN KeywordWithin(Step5Lower, AfterFirstMarker(Step5Lower),
                                           BeforeSecondMarker(Step5Lower))
                        ELSE KeywordWithin(Step5Lower, 1, Len(Step5Lower))
        IN  /\ pc = "branch" => (proceed_with_generation <=> expected)
            /\ pc = "step6" => TookExtension /\ expected
            /\ pc = "return" => TookSkipNote /\ ~expected

\* C3 witness: "Overall Fit Assessment: Not a strong fit." has sent the
\* interactive script to step 5.5
C3_Witness ==
    /\ variant = "interactive"
    /\ pc = "step6"
    /\ Step5Lower = <<"overall", "fit", "assessment", ":", "not", "a", "strong", "fit", ".">>
    /\ TookExtension

\* C4 as claimed: without the marker, both scripts go to S6 exactly when a
\* positive-fit phrase occurs anywhere in the Step 5 output.
C4_Original_MarkerAbsent ==
    (AtBranch /\ ~Contains(Marker, Step5Lower)) =>
        LET expected == KeywordWithin(Step5Lower, 1, Len(Step5Lower))
        IN  /\ pc = "branch" => (proceed_with_generation <=> expected)
            /\ pc = "step6" => TookExtension /\ expected
            /\ pc = "return" => TookSkipNote /\ ~expected

\* C4 amended: without the marker, the interactive script goes to S6 exactly
\* when a positive-fit phrase occurs anywhere in the Step 5 output; the cli
\* script always goes to SkipNote.
C4_MarkerAbsent ==
    (AtBranch /\ ~Contains(Marker, Step5Lower)) =>
        LET expected == variant = "interactive"
                        /\ KeywordWithin(Step5Lower, 1, Len(Step5Lower))
        IN  /\ pc = "branch" => (proceed_with_generation <=> expected)
            /\ pc = "step6" => TookExtension /\ expected
            /\ pc = "return" => TookSkipNote /\ ~expected

\* C4 witness: "Strong Fit." without a marker: the cli script has skipped
C4_Witness ==
    /\ variant = "cli"
    /\ pc = "return"
    /\ Step5Lower = <<"strong", "fit", ".">>
    /\ TookSkipNote

AllStepNames == {CoreNames[i] : i \in 1..Len(CoreNames)}
                \cup {ExtensionNames[i] : i \in 1..Len(ExtensionNames)}
IsStepName(t) == t \in AllStepNames

\* the step labels of the sections of a report, in order
StepLabels(report) == SelectSeq(report, IsStepName)

\* the header followed by the sections of the first n calls
ReportOf(n) ==
    ReportHeader(variant, job_url, candidate_data)
    \o Concat([i \in 1..n |-> call_llm(calls[i].step, replies[i]).report_section])

\* C5: when the fit predicate is negative, the run makes exactly the five
\* core calls and the report is the header, the five core sections and then
\* the skip notice, once, with nothing after it.
C5_SkipBranch ==
    /\ (pc = "branch" /\ ~proceed_with_generation) => ~ENABLED DeepDive
    /\ (pc = "return" /\ ~proceed_with_generation) =>
          /\ CallSteps = CoreNames
          /\ StepLabels(full_report) = CoreNames
          /\ full_report = ReportOf(Len(CoreNames)) \o SkipNotice
          /\ Cardinality(Occurrences(SkipNotice, full_report)) = 1

\* C5 witness: "Overall Fit Assessment: Weak fit, many gaps." and the report
\* is returned
C5_Witness ==
    /\ pc = "return"
    /\ ~proceed_with_generation
    /\ Step5Lower = <<"overall", "fit", "assessment", ":",
                      "weak", "fit", ",", "many", "gaps", ".">>
    /\ Len(calls) = 5
    /\ EndsWith(full_report, SkipNotice)

\* C6: when the fit predicate is positive, steps 5.5, 6 and 7 are each
\* invoked once, in that order, whether or not step 5.5 or step 6 fails; the
\* report has exactly eight step sections and no skip notice.
C6_ProceedBranch ==
    /\ (pc = "branch" /\ proceed_with_generation) => ENABLED DeepDive
    /\ pc = "step6" => CallSteps = CoreNames \o <<Step5_5>> /\ ENABLED ResumeSuggestions
    /\ pc = "step7" => CallSteps = CoreNames \o <<Step5_5, Step6>> /\ ENABLED CoverLetter
    /\ (pc = "return" /\ proceed_with_generation) =>
          /\ CallSteps = CoreNames \o ExtensionNames
          /\ StepLabels(full_report) = CoreNames \o ExtensionNames
          /\ full_report = ReportOf(Len(CoreNames) + Len(ExtensionNames))
          /\ ~Contains(SkipNotice, full_report)

\* C6 witness: "Overall Fit Assessment: Strong Fit.", steps 5.5 and 6 both
\* failed and step 7 was still invoked
C6_Witness ==
    /\ pc = "return"
    /\ Step5Lower = <<"overall", "fit", "assessment", ":", "strong", "fit", ".">>
    /\ Len(calls) = 8
    /\ replies[6].kind = "no_choices"
    /\ replies[7].kind = "raise"
    /\ StepLabels(full_report) = CoreNames \o ExtensionNames

\* the section of the last call is the end of the report
LastSectionVisible ==
    /\ Len(calls) > 0
    /\ pc \in {"core", "predicate", "branch", "step6", "step7"}
       \/ (pc = "return" /\ proceed_with_generation)

LastSection ==
    LET name == calls[Len(calls)].step
        at   == CHOOSE i \in 1..Len(full_report) : full_report[i] = name
    IN  SubSeq(full_report, at - 1, Len(full_report))

\* C7 as claimed: after each call, if the reply was text, the stripped text is
\* the recorded Step Result and the section is the label and that text; if the
\* call failed (client error, no choices, empty result text) the recorded
\* Step Result is empty and the section is an error section with the label
\* and the failure description.
C7_PerStepContract ==
    LastSectionVisible =>
        LET name  == calls[Len(calls)].step
            reply == replies[Len(replies)]
            text  == Strip(reply.content)
        IN  IF reply.kind = "choice" /\ text # <<>>
            THEN /\ LastSection = <<"**", name, "**", "\n", "\n">> \o text \o <<"\n", "\n">>
                 /\ name \in DOMAIN step_results_text => step_results_text[name] = text
            ELSE /\ name \in DOMAIN step_results_text => step_results_text[name] = <<>>
                 /\ Contains(<<"**", name, "**">>, LastSection)
                 /\ \/ Contains(<<"*An error occurred during generation: ">>, LastSection)
                    \/ Contains(<<"*No valid response choice received from the model.*">>,
                                LastSection)
                 /\ reply.kind = "raise" => Contains(reply.error, LastSection)

\* C8 as claimed: when the Step Result of step 1 (step 3) is missing or
\* empty, the prompts of steps 6 and 7 (of step 7) hold the placeholder
\* string in its place.
C8_PlaceholderSubstituted ==
    \A i \in 1..Len(calls) :
        /\ (calls[i].step \in {Step6, Step7}
            /\ DictGet(step_results_text, Step1, <<>>) = <<>>)
              => Contains(JobAnalysisDefault(variant), calls[i].prompt)
        /\ (calls[i].step = Step7 /\ DictGet(step_results_text, Step3, <<>>) = <<>>)
              => Contains(PositioningDefault, calls[i].prompt)

AbsenceNotice == <<"(Could not scrape text. Rely on URL access.)">>

\* C9: whatever goes wrong with the page fetch (timeout, network error,
\* error status, parse error) the scraper returns None after one single
\* fetch, and the run goes on with the absence notice in the job context and
\* in the prompt of step 1 instead of scraped text.
C9_ScrapeFailureIsAbsent ==
    /\ pc = "scrape" => fetch_count = 0 /\ ENABLED ScrapePosting
    /\ pc = "context" =>
          /\ fetch_count = 1
          /\ response.kind \in {"timeout", "connection_error", "http_error", "parse_error"}
                => scraped_text = None
          /\ ENABLED BuildPrompts
    /\ pc \in {"core", "predicate", "branch", "step6", "step7", "return", "done"} =>
          fetch_count = 1
    /\ (pc \in {"core", "predicate"} /\ ~scraped_text.some) =>
                /\ job_context = <<"Job Posting URL: ">> \o job_url \o <<"\n", "\n">>
                                 \o AbsenceNotice
                /\ Contains(AbsenceNotice, prompts_core[1][2])
                /\ ~Contains(<<"Relevant Scraped Text:">>, prompts_core[1][2])

\* C9 witness: the server answered with an error status, the scraper
\* returned None and step 1 has been invoked with the absence notice
C9_Witness ==
    /\ pc = "core"
    /\ Len(calls) = 1
    /\ ~scraped_text.some
    /\ fetch_count = 1
    /\ Contains(AbsenceNotice, calls[1].prompt)

\* the selectors that match some element of the page
MatchingSelectors(page) ==
    {n \in 1..Len(selectors) :
        \E i \in 1..Len(page.elems) : SelectorMatches(selectors[n], page.elems[i])}

\* the element has a text node that is not whitespace only
HasWords(el) ==
    \E k \in 1..Len(el.strings) : \E t \in 1..Len(el.strings[k]) : ~IsSpace(el.strings[k][t])

\* the scraper's result for the text get_text returned
ResultFor(text) == IF text = <<>> THEN None ELSE Some(text)

\* C10: for every parsed page, if some selector of the list matches, the
\* text returned is that of the first element matched by the earliest such
\* selector; the text of the body is returned only when no selector matches.
C10_SelectorPriority ==
    (pc = "context" /\ response.kind = "ok") =>
        LET page == response.page
            M    == MatchingSelectors(page)
        IN  IF M # {}
            THEN LET n  == CHOOSE n \in M : \A m \in M : n <= m
                     el == CHOOSE i \in 1..Len(page.elems) :
                              /\ SelectorMatches(selectors[n], page.elems[i])
                              /\ \A j \in 1..(i - 1) :
                                    ~SelectorMatches(selectors[n], page.elems[j])
                 IN  scraped_text =
                        (IF HasWords(page.elems[el]) THEN Some(<<Words[el]>>)
                         ELSE None)
            ELSE scraped_text =
                    (IF page.hasBody
                     THEN ResultFor(Join(<<"\n">>,
                             SelectSeq([i \in 1..Len(page.elems) |->
                                          IF HasWords(page.elems[i]) THEN <<Words[i]>>
                                          ELSE <<>>],
                                       LAMBDA w : w # <<>>)))
                     ELSE None)

\* C10 witness: a <main> comes first in the page and a div.description
\* second; the text returned is that of the div, whose selector is earlier
C10_Witness ==
    /\ pc = "context"
    /\ response.kind = "ok"
    /\ Len(response.page.elems) = 2
    /\ response.page.elems[1].tag = "main"
    /\ HasWords(response.page.elems[1])
    /\ response.page.elems[2].tag = "div"
    /\ response.page.elems[2].class = "description"
    /\ scraped_text = Some(<<Words[2]>>)

\* C11: a result of the scraper that is not None is at most max_length
\* characters long and is the prefix of that length of the cleaned-up text,
\* the whole of it when it is not longer than max_length; the cut always
\* yields a text
C11_TruncationBound ==
    (pc = "context" /\ scraped_text.some) =>
        /\ Len(scraped_text.text) <= max_length
        /\ Len(scraped_text.text) =
              (IF Len(text_content) <= max_length THEN Len(text_content) ELSE max_length)
        /\ \A i \in 1..Len(scraped_text.text) : scraped_text.text[i] = text_content[i]

\* a cleaned-up text longer than max_length was cut to max_length characters
C11_Witness ==
    /\ pc = "context"
    /\ scraped_text.some
    /\ Len(text_content) > max_length
    /\ Len(scraped_text.text) = max_length
    /\ scraped_text.text # text_content

\* C12: the scraper returns None whenever the cleaned-up text is empty, in
\* particular for every page on which no selector matches and which has no
\* body; a result that is not None is never the empty string
C12_EmptyTextIsAbsent ==
    (pc = "context" /\ response.kind = "ok") =>
        LET page == response.page
        IN  /\ Normalize(SelectorLoop(page, 1)) = <<>> => scraped_text = None
            /\ (MatchingSelectors(page) = {} /\ ~page.hasBody) => scraped_text = None
            /\ scraped_text.some => scraped_text.text # <<>>

\* C12 witness: a page without a body whose only element, a <p> with a
\* word in it, is matched by no selector; the scraper returned None
C12_Witness ==
    /\ pc = "context"
    /\ response.kind = "ok"
    /\ ~response.page.hasBody
    /\ Len(response.page.elems) = 1
    /\ response.page.elems[1].tag = "p"
    /\ HasWords(response.page.elems[1])
    /\ MatchingSelectors(response.page) = {}
    /\ scraped_text = None

\* C13: in a run where the credential is not set, or the profile file is
\* missing or is not well-formed JSON, the process never gets past start-up:
\* it ends without having fetched the page, without a remote call, and
\* without a report built or written
C13_StartupFailureIsFatal ==
    (api_key = <<>> \/ profile_file.status # "ok") =>
        /\ pc \in {"start", "load", "aborted"}
        /\ (api_key = <<>> => pc # "load")
        /\ fetch_count = 0
        /\ calls = <<>>
        /\ full_report = <<>>
        /\ report_file = None
        /\ write_count = 0

\* C13 witness: the credential is set, the profile file is not well-formed,
\* and the process has ended in load_candidate_data
C13_Witness ==
    /\ pc = "aborted"
    /\ api_key # <<>>
    /\ profile_file.status = "malformed"
    /\ fetch_count = 0
    /\ calls = <<>>

\* the Step Result of the j-th call made
ResultOf(j) == call_llm(calls[j].step, replies[j]).text

\* the prompt of the i-th call holds the Step Result of the j-th call
Embeds(i, j) == ResultOf(j) # <<>> /\ Contains(ResultOf(j), calls[i].prompt)

CallFailed(j) == replies[j].kind # "choice"

\* the run goes, or has gone, to the skip notice and makes no call after
\* the five core ones
SkipsExtension ==
    /\ pc \notin {"step6", "step7"}
    /\ pc = "branch" => ~proceed_with_generation /\ ~ENABLED DeepDive
    /\ pc = "return" => TookSkipNote

\* C15 as claimed: when the remote call of any of the five core steps has
\* failed, the run takes the skip branch: no call of step 5.5, 6 or 7 and
\* the report ends with the skip notice.
C15_Original_CoreFailureSkips ==
    (pc \in {"branch", "step6", "step7", "return"}
     /\ \E j \in 1..Len(CoreNames) : CallFailed(j)) => SkipsExtension

\* C15 amended: when the remote call of step 5 has failed, the predicate finds
\* no keyword and the run takes the skip branch: no call of step 5.5, 6 or 7
\* and the report ends with the skip notice.
C15_Step5FailureSkips ==
    (pc \in {"branch", "step6", "step7", "return"} /\ CallFailed(Len(CoreNames))) =>
        /\ Step5Lower = <<>>
        /\ SkipsExtension

\* C15 witness: steps 1 to 4 answered, step 5 raised, and the report with
\* the skip notice is returned
C15_Witness ==
    /\ pc = "return"
    /\ \A j \in 1..4 : ~CallFailed(j)
    /\ replies[5].kind = "raise"
    /\ Len(calls) = 5
    /\ EndsWith(full_report, SkipNotice)

\* the prompt of the i-th call holds the text recorded as the Step Result
\* of the j-th call
HoldsResult(i, j) == Contains(ResultOf(j), calls[i].prompt)

\* C16 as claimed: the prompts of step 3 and of step 5.5 hold the Step Result
\* of step 1; the prompts of steps 6 and 7 hold the Step Results of step 1
\* and of step 5.5, and the prompt of step 7 also that of step 3.
C16_PromptsEmbedEarlierOutputs ==
    /\ Len(calls) >= 3 => HoldsResult(3, 1)
    /\ Len(calls) >= 6 => HoldsResult(6, 1)
    /\ Len(calls) >= 7 => HoldsResult(7, 1) /\ HoldsResult(7, 6)
    /\ Len(calls) >= 8 => HoldsResult(8, 1) /\ HoldsResult(8, 6) /\ HoldsResult(8, 3)

\* one step of the run changes the report in one of the allowed ways: the
\* header is set, the section of the call just made is appended, or the skip
\* notice is appended
ReportStep ==
    \/ full_report' = full_report /\ calls' = calls
    \/ /\ pc = "context"
       /\ full_report = <<>>
       /\ calls' = calls
       /\ full_report' = ReportHeader(variant, job_url, candidate_data)
    \/ /\ Len(calls') = Len(calls) + 1
       /\ SubSeq(calls', 1, Len(calls)) = calls
       /\ full_report' = full_report
                          \o call_llm(calls'[Len(calls')].step,
                                      replies'[Len(replies')]).report_section
    \/ /\ pc = "branch"
       /\ ~proceed_with_generation
       /\ calls' = calls
       /\ pc' = "return"
       /\ ~Contains(SkipNotice, full_report)
       /\ full_report' = full_report \o SkipNotice

\* the report file is written at most once, when the chain is over, with
\* the report as it then is
PersistedOnce ==
    /\ write_count <= 1
    /\ write_count = 1 => pc = "done"
    /\ report_file.some => pc = "done" /\ report_file.text = full_report
    /\ pc = "done" => write_count = 1
    /\ pc = "return" => StepLabels(full_report) = CallSteps

\* C17: the report starts as the header; every later value is the previous
\* one with one section appended, the section of the step just executed (or
\* the skip notice, once, when the extension is skipped), so the sections
\* are in chain order; it is written to the file once, after the chain.
C17_ReportAccumulates == [][ReportStep]_vars /\ []PersistedOnce

\* C17 witness: a report of eight sections was written to the report file
C17_Witness ==
    /\ pc = "done"
    /\ write_count = 1
    /\ Len(calls) = 8
    /\ report_file = Some(full_report)
    /\ full_report = ReportOf(8)

\* C18: in both scripts, for every Step 5 text and every two lists of
\* phrases of which the second holds all phrases of the first, a text judged
\* "proceed" with the first is judged "proceed" with the second: a phrase
\* added to the list never turns "proceed" into "skip".
C18_MonotoneInKeywords ==
    [][(pc = "branch" /\ pc' = "branch" /\ fit_keywords \subseteq fit_keywords'
        /\ step_results_text' = step_results_text /\ proceed_with_generation)
       => proceed_with_generation']_vars

\* C18 witness: a text judged "skip" with a list without "strong fit" is
\* judged "proceed" with the whole pool, which holds phrases the text has
\* and phrases it has not
C18_Witness ==
    /\ pc = "branch"
    /\ fit_keywords = PhrasePool
    /\ proceed_with_generation
    /\ Step5Lower = <<"overall", "fit", "assessment", ":", "strong", "fit", ".">>

\* the text has a run of more than one blank line: three newlines with
\* nothing but whitespace between them
MoreThanOneBlankLine(s) ==
    \E i \in 1..Len(s) : \E k \in (i + 2)..Len(s) :
        /\ s[i] = "\n" /\ s[k] = "\n"
        /\ \A m \in i..k : IsSpace(s[m])
        /\ \E j \in (i + 1)..(k - 1) : s[j] = "\n"

\* C19: the whitespace clean-up (every newline, optional whitespace,
\* newline replaced by two newlines, then both ends trimmed) applied twice
\* gives the same text as applied once, for every input text, and its
\* output has no run of more than one blank line.
C19_NormalizeIdempotent ==
    /\ pc = "cleanup" =>
          /\ Normalize(Normalize(text_content)) = Normalize(text_content)
          /\ ~MoreThanOneBlankLine(Normalize(text_content))
    /\ (pc = "cut" /\ Len(text_content) <= MaxLen) =>
          /\ Normalize(text_content) = text_content
          /\ ~MoreThanOneBlankLine(text_content)

\* C19 witness: a text was cleaned up into one with a single blank line
C19_Witness ==
    /\ pc = "cut"
    /\ text_content = <<"a", "\n", "\n", "a">>
    /\ Normalize(text_content) = text_content

\* the branch the script takes when all it has recorded is the Step 5
\* result of the run
BranchOfStep5Alone ==
    FitPredicate(variant, DictSet(<<>>, Step5, DictGet(step_results_text, Step5, <<>>)))

\* C20: the branch taken is a function of the script and of the recorded
\* Step 5 result alone: whatever the scrape returned and whether or not
\* steps 1 to 4 failed, two runs of one script with the same Step 5 result
\* take the same branch; with a positive Step 5 result steps 5.5, 6 and 7
\* run even if steps 1 to 4 all failed.
C20_BranchDependsOnStep5Only ==
    /\ pc = "branch" => proceed_with_generation = BranchOfStep5Alone
    /\ pc \in {"step6", "step7"} => BranchOfStep5Alone
    /\ pc = "return" =>
          /\ step_results_text[Step5] = ResultOf(Len(CoreNames))
          /\ BranchOfStep5Alone => CallSteps = CoreNames \o ExtensionNames
          /\ ~BranchOfStep5Alone => CallSteps = CoreNames /\ EndsWith(full_report, SkipNotice)

\* C20 witness: nothing was scraped, steps 1 to 4 all failed, step 5
\* answered "Overall Fit Assessment: Strong Fit.", and steps 5.5, 6 and 7
\* were invoked
C20_Witness ==
    /\ pc = "return"
    /\ ~scraped_text.some
    /\ \A j \in 1..4 : CallFailed(j)
    /\ Step5Lower = <<"overall", "fit", "assessment", ":", "strong", "fit", ".">>
    /\ CallSteps = CoreNames \o ExtensionNames

\* the part of the lower-cased Step 5 result between the first marker and
\* the second one, or the end of the text when there is no second one
AssessmentSegment ==
    SubSeq(Step5Lower, AfterFirstMarker(Step5Lower), BeforeSecondMarker(Step5Lower))

\* C21: in the interactive script, with the marker in the lower-cased Step 5
\* output, only the text between the first marker and the second one (or the
\* end) is searched for the phrases: the run goes on exactly when a phrase
\* occurs there; a phrase only before the first marker or only after the
\* second one leaves the run on the skip branch.
C21_InteractiveSegmentOnly ==
    (variant = "interactive" /\ AtBranch /\ Contains(Marker, Step5Lower)) =>
        LET inside == AnyKeyword(positive_fit_keywords("interactive"), AssessmentSegment)
        IN  /\ pc = "branch" => (proceed_with_generation <=> inside)
            /\ pc = "step6" => inside /\ TookExtension
            /\ pc = "return" => ~inside /\ TookSkipNote

\* C21 witness: the verdict "Strong Fit." comes only after the second
\* "Overall Fit Assessment:" and the interactive script has skipped
C21_Witness ==
    /\ variant = "interactive"
    /\ pc = "return"
    /\ Step5Lower = <<"overall", "fit", "assessment", ":",
                      "weak", "fit", ",", "many", "gaps", ".",
                      "overall", "fit", "assessment", ":", "strong", "fit", ".">>
    /\ AnyKeyword(positive_fit_keywords("interactive"), Step5Lower)
    /\ TookSkipNote

\* the element the earliest matching selector picks: the first one in the
\* page that it matches
PickedElement(page) ==
    LET n == CHOOSE n \in MatchingSelectors(page) :
                \A m \in MatchingSelectors(page) : n <= m
    IN  page.elems[select_one(page, selectors[n])]

\* C22: when the element picked by the first matching selector has no
\* visible text, the loop over the selectors is over all the same: neither a
\* later selector nor the body is tried and the scraper returns None, even
\* when the body holds text.
C22_EmptyMatchEndsCascade ==
    (pc = "context" /\ response.kind = "ok"
     /\ MatchingSelectors(response.page) # {}
     /\ ~HasWords(PickedElement(response.page))) =>
        /\ scraped_text = None
        /\ text_content = <<>>

\* C22 witness: a div.job-description with only whitespace in it comes
\* before a <p> with a word, inside a body; the scraper returned None
C22_Witness ==
    /\ pc = "context"
    /\ response.kind = "ok"
    /\ response.page.hasBody
    /\ Len(response.page.elems) = 2
    /\ response.page.elems[1].tag = "div"
    /\ response.page.elems[1].class = "job-description"
    /\ response.page.elems[1].strings # <<>>
    /\ ~HasWords(response.page.elems[1])
    /\ response.page.elems[2].tag = "p"
    /\ HasWords(response.page.elems[2])
    /\ get_text(BodyNodes(response.page.elems)) # <<>>
    /\ scraped_text = None
====
